---- MODULE Spec2Model ----
(***************************************************************************)
(* Model of dskrnd.py, the random seating planner: the record store        *)
(* (`database`), its persistence in dskrnd.json, the main menu loop and    *)
(* the four action handlers.  A step of the model is the code that runs    *)
(* between two blocking terminal reads (getkey / getstr).                  *)
(*                                                                         *)
(* Text is modelled as a sequence of characters, each character a short    *)
(* string: "A", "5", "\"" ...  The string "sup2" stands for the character  *)
(* U+00B2 SUPERSCRIPT TWO, of Unicode category No and numeric type Digit.  *)
(* A line read by get_user_input is the text typed, decoded from UTF-8.    *)
(***************************************************************************)
EXTENDS Integers, Sequences, FiniteSets, TLC

VARIABLES
    database,    \* the global list of records (dskrnd.py:19)
    file,        \* the content of dskrnd.json
    pc,          \* where the process is blocked (or "start", "done", "crashed")
    user_input,  \* the handler's local user_name / desk_number string
    screen,      \* what the terminal shows
    saves,       \* number of calls of write_database_file in this run
    cleared,     \* history: the desk removed by the Clear action, while that is
                 \* the latest menu action taken to its end; 0 otherwise
    call         \* store-level harness: the last store operation applied

vars == <<database, file, pc, user_input, screen, saves, cleared, call>>

----------------------------------------------------------------------------
(* Program constants *)

DESK_POOL == 50

MinNameLen == 2

\* slip: the upper limit one too high, len(user_name) > 18
MaxNameLen_OffByOne == 17 + 1

MaxNameLen == 17

MinRows == 24

MinCols == 80

----------------------------------------------------------------------------
(* Bounds of the model *)

\* longest store drawn as a starting state of the store-level specification
MaxStoreLen == 2

----------------------------------------------------------------------------
(* Characters and text *)

DecimalChars == <<"0", "1", "2", "3", "4", "5", "6", "7", "8", "9">>

IsDecimal(c) == \E i \in 1..10 : DecimalChars[i] = c

DigitVal(c) == (CHOOSE i \in 1..10 : DecimalChars[i] = c) - 1

\* str.isdigit() is true of a character whose numeric type is Decimal or
\* Digit; superscript two is such a character and is no decimal digit.
IsDigitChar(c) == IsDecimal(c) \/ c = "sup2"

isdigit(s) == Len(s) > 0 /\ \A i \in 1..Len(s) : IsDigitChar(s[i])

RECURSIVE DecimalValue(_)
DecimalValue(s) ==
    IF s = <<>> THEN 0
    ELSE 10 * DecimalValue(SubSeq(s, 1, Len(s) - 1)) + DigitVal(s[Len(s)])

\* int(s): an optional sign and decimal digits; anything else is ValueError
IntParses(s) ==
    LET body == IF s # <<>> /\ s[1] = "-" THEN Tail(s) ELSE s
    IN  body # <<>> /\ \A i \in 1..Len(body) : IsDecimal(body[i])

int(s) ==
    IF s # <<>> /\ s[1] = "-" THEN 0 - DecimalValue(Tail(s)) ELSE DecimalValue(s)

RECURSIVE NatToDigits(_)
NatToDigits(n) ==
    IF n < 10 THEN <<DecimalChars[n + 1]>>
    ELSE NatToDigits(n \div 10) \o <<DecimalChars[(n % 10) + 1]>>

\* the decimal text json.dump writes for an int
IntToText(n) == IF n < 0 THEN <<"-">> \o NatToDigits(0 - n) ELSE NatToDigits(n)

\* slip: the name written between quotes as it is
JsonEscape_Raw(s) == s

\* json string encoding: quote and backslash are written with a backslash
RECURSIVE JsonEscape(_)
JsonEscape(s) ==
    IF s = <<>> THEN <<>>
    ELSE (IF s[1] \in {"\"", "\\"} THEN <<"\\", s[1]>> ELSE <<s[1]>>)
         \o JsonEscape(Tail(s))

RECURSIVE JsonUnescape(_)
JsonUnescape(t) ==
    IF t = <<>> THEN <<>>
    ELSE IF t[1] = "\\" /\ Len(t) >= 2
         THEN <<t[2]>> \o JsonUnescape(SubSeq(t, 3, Len(t)))
         ELSE <<t[1]>> \o JsonUnescape(Tail(t))

----------------------------------------------------------------------------
(* The persisted document *)

Missing == [kind |-> "missing"]

Garbage == [kind |-> "garbage"]

Doc(objs) == [kind |-> "doc", objects |-> objs]

\* json.dump(database, ...): one object per record, in store order
JsonDump(db) ==
    Doc([i \in 1..Len(db) |->
            [user_name   |-> JsonEscape(db[i].user_name),
             desk_number |-> IntToText(db[i].desk_number)]])

\* json.load of a document
JsonLoad(f) ==
    [i \in 1..Len(f.objects) |->
        [user_name   |-> JsonUnescape(f.objects[i].user_name),
         desk_number |-> int(f.objects[i].desk_number)]]

\* read_database_file: <<return value, database afterwards>>
read_database_file(f, db) ==
    IF f.kind = "doc" THEN <<TRUE, JsonLoad(f)>> ELSE <<FALSE, db>>

\* write_database_file: the outcomes <<return value, file afterwards>>.
\* open() may fail (file untouched); a write may fail after open truncated it.
write_database_file(f, db) ==
    { <<TRUE, JsonDump(db)>>, <<FALSE, f>>, <<FALSE, Garbage>> }

----------------------------------------------------------------------------
(* Store operations *)

Record(n, name) == [user_name |-> name, desk_number |-> n]

get_assigned_desk_numbers(db) == [i \in 1..Len(db) |-> db[i].desk_number]

get_assigned_user_names(db) == [i \in 1..Len(db) |-> db[i].user_name]

Range(s) == {s[i] : i \in 1..Len(s)}

get_user_name(db, desk_number) ==
    IF \E i \in 1..Len(db) : db[i].desk_number = desk_number
    THEN db[CHOOSE i \in 1..Len(db) :
                /\ db[i].desk_number = desk_number
                /\ \A j \in 1..(i - 1) : db[j].desk_number # desk_number].user_name
    ELSE <<>>

\* slip: the position of the record returned for its desk number
get_desk_number_Position(db, name) ==
    IF \E i \in 1..Len(db) : db[i].user_name = name
    THEN CHOOSE i \in 1..Len(db) :
            /\ db[i].user_name = name
            /\ \A j \in 1..(i - 1) : db[j].user_name # name
    ELSE 0

get_desk_number(db, name) ==
    IF \E i \in 1..Len(db) : db[i].user_name = name
    THEN db[CHOOSE i \in 1..Len(db) :
                /\ db[i].user_name = name
                /\ \A j \in 1..(i - 1) : db[j].user_name # name].desk_number
    ELSE 0

\* slip: the desk recorded zero-based
add_desk_assignment_ZeroBased(db, desk_number, name) ==
    Append(db, [user_name |-> name, desk_number |-> desk_number - 1])

add_desk_assignment(db, desk_number, name) == Append(db, Record(desk_number, name))

\* del database[i] (1-based here)
DelAt(db, i) == SubSeq(db, 1, i - 1) \o SubSeq(db, i + 1, Len(db))

\* database.index(record): the first position holding an equal record
IndexOf(db, r) == CHOOSE i \in 1..Len(db) : db[i] = r /\ \A j \in 1..(i - 1) : db[j] # r

\* The for loop of clear_desk_assignment over the list it deletes from: the
\* list iterator holds a position k, and a deletion shifts the later records
\* down while k still advances.
RECURSIVE ClearLoop(_, _, _)
ClearLoop(db, k, desk_number) ==
    IF k > Len(db) THEN db
    ELSE IF db[k].desk_number = desk_number
         THEN ClearLoop(DelAt(db, IndexOf(db, db[k])), k + 1, desk_number)
         ELSE ClearLoop(db, k + 1, desk_number)

\* slip: del database[0] once a record of the desk is found
clear_desk_assignment_First(db, desk_number) ==
    IF \E i \in 1..Len(db) : db[i].desk_number = desk_number THEN Tail(db) ELSE db

clear_desk_assignment(db, desk_number) == ClearLoop(db, 1, desk_number)

\* slip: the choice made among all desks, the assigned ones not taken out
free_desks_All(db) == 1..DESK_POOL

\* slip: range(DESK_POOL) for the pool
free_desks_ZeroBased(db) ==
    (0..(DESK_POOL - 1)) \ {db[i].desk_number : i \in 1..Len(db)}

\* all_desks - assigned_desks (dskrnd.py:168-172)
free_desks(db) == (1..DESK_POOL) \ Range(get_assigned_desk_numbers(db))

----------------------------------------------------------------------------
(* What the terminal shows *)

MenuScreen == [kind |-> "menu"]

ResizeScreen == [kind |-> "resize"]

Prompt(text) == [kind |-> "prompt", text |-> text]

\* wait_for_key(message): the message, with the values formatted into it
Message(text, name, desk) ==
    [kind |-> "message", text |-> text, user_name |-> name, desk_number |-> desk]

Traceback(error) == [kind |-> "traceback", error |-> error]

NamePrompt == Prompt("Please enter user name (2 - 17 characters, empty to cancel): ")

DeskPrompt == Prompt("Please enter desk number (1 - 50, empty to cancel): ")

\* code point order of the characters used in names
CodePoints ==
    <<"\"", "-", "0", "1", "2", "3", "4", "5", "6", "7", "8", "9",
      "A", "B", "\\", "a", "b", "c", "d", "e", "f", "g", "h", "i", "j", "k",
      "l", "m", "n", "o", "p", "q", "r", "s", "t", "u", "v", "w", "x", "y",
      "z", "sup2">>

Ord(c) == CHOOSE i \in 1..Len(CodePoints) : CodePoints[i] = c

\* s < t for Python strings
RECURSIVE StrLess(_, _)
StrLess(s, t) ==
    IF t = <<>> THEN FALSE
    ELSE IF s = <<>> THEN TRUE
    ELSE IF s[1] = t[1] THEN StrLess(Tail(s), Tail(t))
    ELSE Ord(s[1]) < Ord(t[1])

\* sorted(names): repeatedly take a least element
RECURSIVE sorted(_)
sorted(names) ==
    IF names = <<>> THEN <<>>
    ELSE LET i == CHOOSE k \in 1..Len(names) :
                      /\ \A j \in 1..Len(names) : ~StrLess(names[j], names[k])
                      /\ \A j \in 1..(k - 1) : names[j] # names[k]
         IN  <<names[i]>> \o sorted(DelAt(names, i))

\* show_desks: one line per desk of the pool, ascending
DesksScreen(db) ==
    [kind |-> "desks",
     rows |-> [d \in 1..DESK_POOL |-> Record(d, get_user_name(db, d))]]

\* show_users: one line per record, by user name
UsersScreen(db) ==
    [kind |-> "users",
     rows |-> LET names == sorted(get_assigned_user_names(db))
              IN  [i \in 1..Len(names) |->
                      Record(get_desk_number(db, names[i]), names[i])]]

----------------------------------------------------------------------------
(* Inputs *)

Keys == {"0", "1", "2", "3", "4", "x"}

\* getmaxyx() results: <<rows, columns>>
TermSizes == {<<MinRows, MinCols>>, <<MinRows - 1, MinCols>>, <<MinRows, MinCols - 1>>}

Name1 == <<"A">>

Name2 == <<"A", "l">>

Name17 ==
    <<"\"", "\\", "c", "d", "e", "f", "g", "h", "i", "j", "k", "l", "m", "n",
      "o", "p", "q">>

Name18 == Name17 \o <<"r">>

NameInputs == {<<>>, Name1, Name2, Name17, Name18}

DeskInputs ==
    {<<>>, <<"a">>, <<"-", "1">>, <<"0">>, <<"5">>, <<"0", "5">>, <<"5", "0">>,
     <<"5", "1">>, <<"sup2">>}

\* documents an earlier run can have left behind
OneRecordDoc == JsonDump(<<Record(5, Name2)>>)

FullDoc == JsonDump([d \in 1..DESK_POOL |-> Record(d, <<"u">> \o IntToText(d))])

InitialFiles == {Missing, OneRecordDoc, FullDoc}

EmptyFiles == {Missing, Garbage, JsonDump(<<>>)}

NoCall == [op |-> "none"]

----------------------------------------------------------------------------
(* The program: main, assign_desk, clear_desk, show_desks, show_users *)

\* the process before main runs: the module-level database is the empty list
InitFrom(files) ==
    /\ database = <<>>
    /\ file \in files
    /\ pc = "start"
    /\ user_input = <<>>
    /\ screen = [kind |-> "blank"]
    /\ saves = 0
    /\ cleared = 0
    /\ call = NoCall

Init == InitFrom(InitialFiles)

\* Top of main's while loop (dskrnd.py:263-280): the size check, then either
\* the resize notice or the menu, and the process blocks in getkey.
MainLoop ==
    \E size \in TermSizes :
        IF size[1] < MinRows \/ size[2] < MinCols
        THEN pc' = "resize" /\ screen' = ResizeScreen
        ELSE pc' = "menu" /\ screen' = MenuScreen

\* An exception no handler catches: curses.wrapper restores the terminal and
\* re-raises, the interpreter prints the traceback and exits; nothing is saved.
Crash(error) ==
    /\ pc' = "crashed"
    /\ screen' = Traceback(error)
    /\ UNCHANGED <<database, file, user_input, saves, cleared, call>>

\* main, up to the first blocking read (dskrnd.py:258-280)
Start ==
    /\ pc = "start"
    /\ database' = read_database_file(file, database)[2]
    /\ MainLoop
    /\ UNCHANGED <<file, user_input, saves, cleared, call>>

\* the key that ends the resize notice (dskrnd.py:267-268)
ResizeKey ==
    /\ pc = "resize"
    /\ MainLoop
    /\ UNCHANGED <<database, file, user_input, saves, cleared, call>>

\* slip: `>` for `>=` in the capacity check
EnterAssign_Greater ==
    IF Len(database) > DESK_POOL
    THEN pc' = "assign_full_msg"
         /\ screen' = [kind |-> "message", text |-> "No free desk available.",
                       user_name |-> <<>>, desk_number |-> 0]
    ELSE pc' = "assign_prompt"
         /\ screen' = [kind |-> "prompt",
                       text |-> "Please enter user name (2 - 17 characters, empty to cancel): "]

\* assign_desk up to its first blocking read (dskrnd.py:146-151)
EnterAssign ==
    IF Len(get_assigned_desk_numbers(database)) >= DESK_POOL
    THEN pc' = "assign_full_msg"
         /\ screen' = Message("No free desk available.", <<>>, 0)
    ELSE pc' = "assign_prompt" /\ screen' = NamePrompt

\* slip: the empty-store check left out
EnterClear_NoCheck ==
    /\ pc' = "clear_prompt"
    /\ screen' = [kind |-> "prompt",
                  text |-> "Please enter desk number (1 - 50, empty to cancel): "]

\* clear_desk up to its first blocking read (dskrnd.py:186-191)
EnterClear ==
    IF Len(get_assigned_desk_numbers(database)) = 0
    THEN pc' = "clear_empty_msg"
         /\ screen' = Message("No desks assigned yet.", <<>>, 0)
    ELSE pc' = "clear_prompt" /\ screen' = DeskPrompt

\* The key read by the main menu and its dispatch (dskrnd.py:280-297)
MenuKey ==
    /\ pc = "menu"
    /\ \E k \in Keys :
        /\ cleared' = (IF k = "2" THEN cleared ELSE 0)
        /\ CASE k = "1" -> EnterAssign /\ UNCHANGED <<file, saves>>
             [] k = "2" -> EnterClear /\ UNCHANGED <<file, saves>>
             [] k = "3" -> /\ pc' = "show_desks"
                           /\ screen' = DesksScreen(database)
                           /\ UNCHANGED <<file, saves>>
             [] k = "4" -> /\ pc' = "show_users"
                           /\ screen' = UsersScreen(database)
                           /\ UNCHANGED <<file, saves>>
             [] k = "0" -> /\ \E out \in write_database_file(file, database) :
                                file' = out[2]
                           /\ saves' = saves + 1
                           /\ pc' = "done"
                           /\ screen' = [kind |-> "blank"]
             [] OTHER   -> MainLoop /\ UNCHANGED <<file, saves>>
    /\ UNCHANGED <<database, user_input, call>>

\* One line typed at the name prompt and the loop body of assign_desk that
\* follows it (dskrnd.py:151-180)
AssignInput ==
    /\ pc = "assign_prompt"
    /\ \E s \in NameInputs :
        IF Len(s) = 0
        THEN /\ MainLoop
             /\ user_input' = <<>>
             /\ UNCHANGED <<database, file, saves, cleared, call>>
        ELSE IF Len(s) < MinNameLen
        THEN /\ pc' = "assign_err_msg"
             /\ screen' = Message("User name too short.", <<>>, 0)
             /\ user_input' = s
             /\ UNCHANGED <<database, file, saves, cleared, call>>
        ELSE IF Len(s) > MaxNameLen
        THEN /\ pc' = "assign_err_msg"
             /\ screen' = Message("User name too long.", <<>>, 0)
             /\ user_input' = s
             /\ UNCHANGED <<database, file, saves, cleared, call>>
        ELSE IF s \in Range(get_assigned_user_names(database))
        THEN /\ pc' = "assign_err_msg"
             /\ screen' = Message("User has been found in database assigned to desk number",
                                  s, get_desk_number(database, s))
             /\ user_input' = s
             /\ UNCHANGED <<database, file, saves, cleared, call>>
        ELSE IF free_desks(database) = {}
        THEN Crash("IndexError")
        ELSE \E desk_number \in free_desks(database) :
                /\ database' = add_desk_assignment(database, desk_number, s)
                /\ pc' = "assign_ok_msg"
                /\ screen' = Message("User has been assigned to desk number",
                                     s, desk_number)
                /\ user_input' = s
                /\ cleared' = 0
                /\ UNCHANGED <<file, saves, call>>

\* One line typed at the desk prompt and the loop body of clear_desk that
\* follows it (dskrnd.py:191-212)
ClearInput ==
    /\ pc = "clear_prompt"
    /\ \E s \in DeskInputs :
        IF Len(s) = 0
        THEN /\ MainLoop
             /\ user_input' = <<>>
             /\ cleared' = 0
             /\ UNCHANGED <<database, file, saves, call>>
        ELSE IF ~isdigit(s)
        THEN /\ pc' = "clear_err_msg"
             /\ screen' = Message("Desk number must be a number in range 1 - 50 range.",
                                  <<>>, 0)
             /\ user_input' = s
             /\ UNCHANGED <<database, file, saves, cleared, call>>
        ELSE IF ~IntParses(s)
        THEN Crash("ValueError")
        ELSE IF ~(1 <= int(s) /\ int(s) <= DESK_POOL)
        THEN /\ pc' = "clear_err_msg"
             /\ screen' = Message("Desk number must be a number in range 1 - 50 range.",
                                  <<>>, 0)
             /\ user_input' = s
             /\ UNCHANGED <<database, file, saves, cleared, call>>
        ELSE IF int(s) \notin Range(get_assigned_desk_numbers(database))
        THEN /\ pc' = "clear_err_msg"
             /\ screen' = Message("Desk number is not assigned to any user.",
                                  <<>>, int(s))
             /\ user_input' = s
             /\ UNCHANGED <<database, file, saves, cleared, call>>
        ELSE /\ database' = clear_desk_assignment(database, int(s))
             /\ pc' = "clear_ok_msg"
             /\ screen' = Message("Desk has been cleared.", <<>>, int(s))
             /\ user_input' = s
             /\ cleared' = int(s)
             /\ UNCHANGED <<file, saves, call>>

\* the key that ends an error message; the handler's loop prompts again
\* (wait_for_key then continue: dskrnd.py:157-166, 197-208)
AckRetry ==
    /\ pc \in {"assign_err_msg", "clear_err_msg"}
    /\ pc' = (IF pc = "assign_err_msg" THEN "assign_prompt" ELSE "clear_prompt")
    /\ screen' = (IF pc = "assign_err_msg" THEN NamePrompt ELSE DeskPrompt)
    /\ UNCHANGED <<database, file, user_input, saves, cleared, call>>

ReturnStates ==
    {"assign_full_msg", "assign_ok_msg", "clear_empty_msg", "clear_ok_msg",
     "show_desks", "show_users"}

\* the key that ends a handler's last wait_for_key; the handler returns to
\* main's loop (dskrnd.py:147-148, 178-180, 187-188, 211-212, 232, 252)
AckReturn ==
    /\ pc \in ReturnStates
    /\ MainLoop
    /\ user_input' = <<>>
    /\ UNCHANGED <<database, file, saves, cleared, call>>

Next ==
    \/ Start
    \/ ResizeKey
    \/ MenuKey
    \/ AssignInput
    \/ ClearInput
    \/ AckRetry
    \/ AckReturn

Spec == Init /\ [][Next]_vars

InitEmpty == InitFrom(EmptyFiles)

\* the program started with no usable or an empty dskrnd.json
SpecEmpty == InitEmpty /\ [][Next]_vars

----------------------------------------------------------------------------
(* The store operations applied directly, as a unit test applies them, to   *)
(* stores drawn from a bounded set.  `call` records the operation applied   *)
(* last: its arguments, its result, the operation before it and the store   *)
(* before the sequence of operations began.                                 *)

StoreNames == {Name2, Name17}

StoreDesks == {5, DESK_POOL}

StoreRecords == {Record(n, name) : n \in StoreDesks, name \in StoreNames}

Stores == UNION {[1..n -> StoreRecords] : n \in 0..MaxStoreLen}

Called(op, n, name, ok, before) ==
    [op |-> op, desk_number |-> n, user_name |-> name, ok |-> ok,
     prev |-> call.op, prev_ok |-> (call.op # "none" /\ call.ok),
     before |-> before]

InitStore ==
    /\ database \in Stores
    /\ file \in {Missing, Garbage}
    /\ pc = "store"
    /\ user_input = <<>>
    /\ screen = [kind |-> "blank"]
    /\ saves = 0
    /\ cleared = 0
    /\ call = NoCall

\* add_desk_assignment(n, name) on the drawn store
CallAdd ==
    /\ pc = "store"
    /\ call.op = "none"
    /\ \E n \in 1..DESK_POOL, name \in StoreNames :
        /\ database' = add_desk_assignment(database, n, name)
        /\ call' = Called("add", n, name, TRUE, database)
    /\ UNCHANGED <<file, pc, user_input, screen, saves, cleared>>

\* clear_desk_assignment(n): of any desk on the drawn store, or of the desk
\* just added
CallRemove ==
    /\ pc = "store"
    /\ call.op \in {"none", "add"}
    /\ \E n \in (IF call.op = "add" THEN {call.desk_number} ELSE 1..DESK_POOL) :
        /\ database' = clear_desk_assignment(database, n)
        /\ call' = Called("remove", n, <<>>, TRUE,
                          IF call.op = "add" THEN call.before ELSE database)
    /\ UNCHANGED <<file, pc, user_input, screen, saves, cleared>>

\* write_database_file()
CallSave ==
    /\ pc = "store"
    /\ call.op \in {"none", "add", "remove"}
    /\ \E out \in write_database_file(file, database) :
        /\ file' = out[2]
        /\ call' = Called("save", 0, <<>>, out[1], database)
    /\ UNCHANGED <<database, pc, user_input, screen, saves, cleared>>

\* read_database_file()
CallLoad ==
    /\ pc = "store"
    /\ call.op \in {"none", "save"}
    /\ LET r == read_database_file(file, database)
       IN  /\ database' = r[2]
           /\ call' = Called("load", 0, <<>>, r[1], database)
    /\ UNCHANGED <<file, pc, user_input, screen, saves, cleared>>

NextStore ==
    \/ CallAdd
    \/ CallRemove
    \/ CallSave
    \/ CallLoad

SpecStore == InitStore /\ [][NextStore]_vars

----------------------------------------------------------------------------
(* Claims about the store operations (specification SpecStore) *)

Desks(db) == Range(get_assigned_desk_numbers(db))

Names(db) == Range(get_assigned_user_names(db))

PairSet(db) == {<<db[i].user_name, db[i].desk_number>> : i \in 1..Len(db)}

LookupsFindAdded ==
    /\ get_user_name(database, call.desk_number) = call.user_name
    /\ get_desk_number(database, call.user_name) = call.desk_number

\* C2 as stated: after add(n, name) on any store whatever, the desk lookup
\* of n gives name and the name lookup of name gives n.
C2_AnyStore == call.op = "add" => LookupsFindAdded

\* C2 amended: after add(n, name) on a store that holds no record of desk n
\* and no record of name, get_user_name(n) = name and get_desk_number(name) = n.
C2_AddThenLookup ==
    (/\ call.op = "add"
     /\ call.desk_number \notin Desks(call.before)
     /\ call.user_name \notin Names(call.before))
    => LookupsFindAdded

\* an add of a fresh desk and name to a store that already holds records
C2_Witness ==
    /\ call.op = "add"
    /\ call.before # <<>>
    /\ call.desk_number \notin Desks(call.before)
    /\ call.user_name \notin Names(call.before)
    /\ LookupsFindAdded

AddThenRemove == call.op = "remove" /\ call.prev = "add"

\* C3 as stated: add(n, name) then remove_by_desk(n) restores any store
\* whatever, record for record.
C3_AnyStore == AddThenRemove => database = call.before

\* C3 amended: on a store that holds no record of desk n, add(n, name) then
\* clear_desk_assignment(n) leaves the same records in the same order.
C3_AddThenRemove ==
    (AddThenRemove /\ call.desk_number \notin Desks(call.before))
    => database = call.before

\* the round trip on a store of other desks
C3_Witness ==
    /\ AddThenRemove
    /\ call.before # <<>>
    /\ call.desk_number \notin Desks(call.before)
    /\ database = call.before

SaveThenLoad ==
    /\ call.op = "load"
    /\ call.ok
    /\ call.prev = "save"
    /\ call.prev_ok

\* C6: a successful write_database_file followed by a successful
\* read_database_file leaves the store with the same (user_name, desk_number)
\* pairs it had at the save.
C6_SaveThenLoad == SaveThenLoad => PairSet(database) = PairSet(call.before)

\* a round trip of a store holding a name with a quote and a backslash in it
C6_Witness ==
    /\ SaveThenLoad
    /\ Name17 \in Names(call.before)
    /\ DESK_POOL \in Desks(call.before)
    /\ PairSet(database) = PairSet(call.before)

----------------------------------------------------------------------------
(* Claims about the running program (specifications Spec and SpecEmpty) *)

MainMenu == {"menu", "resize"}

NoFreeDeskMessage == Message("No free desk available.", <<>>, 0)

NoDesksMessage == Message("No desks assigned yet.", <<>>, 0)

NotAssignedMessage(n) == Message("Desk number is not assigned to any user.", <<>>, n)

FoundMessage(name, n) ==
    Message("User has been found in database assigned to desk number", name, n)

\* C1: started from the empty store, the store never holds two records of
\* one desk or of one user, never more than 50 records, and every record has
\* a desk in 1..50 and a name of 2 to 17 characters.
C1_StoreInvariant ==
    /\ \A i, j \in 1..Len(database) :
          i # j => /\ database[i].desk_number # database[j].desk_number
                   /\ database[i].user_name # database[j].user_name
    /\ Len(database) <= 50
    /\ \A i \in 1..Len(database) :
          /\ database[i].desk_number \in 1..50
          /\ Len(database[i].user_name) \in 2..17

\* two users seated, after a desk was cleared and assigned again
C1_Witness ==
    /\ Len(database) = 2
    /\ pc = "assign_ok_msg"
    /\ database[1].user_name = Name17
    /\ database[2].desk_number = 5

\* C4: the desk the Assign handler selects is not among the assigned desk
\* numbers at that moment, lies in 1..50, and is the one free desk when
\* exactly one desk is free; the record appended is that desk with the name.
C4_FreeDeskSelection ==
    [][(pc = "assign_prompt" /\ pc' = "assign_ok_msg") =>
           LET d == screen'.desk_number
               free == (1..50) \ Desks(database)
           IN  /\ d \notin Desks(database)
               /\ d \in 1..50
               /\ (Cardinality(free) = 1 => free = {d})
               /\ database' = Append(database, Record(d, user_input'))]_vars

\* the last free desk of a full pool was selected
C4_Witness ==
    /\ pc = "assign_ok_msg"
    /\ Len(database) = 50
    /\ screen.desk_number = 5
    /\ database[50] = Record(5, Name17)

\* C5: with 50 records in the store the Assign handler never prompts for a
\* name: it shows "No free desk available." and the key that follows leads
\* back to the main menu, the store unchanged throughout.
C5_PoolFull ==
    [][Len(database) >= 50 =>
           /\ pc = "menu" => pc' # "assign_prompt"
           /\ (pc = "menu" /\ pc' = "assign_full_msg") =>
                  /\ screen' = NoFreeDeskMessage
                  /\ database' = database
           /\ pc = "assign_full_msg" =>
                  /\ pc' \in MainMenu
                  /\ database' = database]_vars

\* the "no free desk" message on a full store
C5_Witness ==
    /\ pc = "assign_full_msg"
    /\ Len(database) = 50
    /\ screen = NoFreeDeskMessage

\* C7: a name typed at the Assign prompt that already has a record is
\* rejected: the store is unchanged, the message names the desk of the
\* existing record, and the key that follows brings the name prompt back.
C7_DuplicateName ==
    [][/\ (pc = "assign_prompt" /\ pc' # "crashed" /\ user_input' \in Names(database)) =>
              /\ database' = database
              /\ pc' = "assign_err_msg"
              /\ \E i \in 1..Len(database) :
                    /\ database[i].user_name = user_input'
                    /\ screen' = FoundMessage(user_input', database[i].desk_number)
       /\ pc = "assign_err_msg" =>
              /\ pc' = "assign_prompt"
              /\ screen' = NamePrompt
              /\ database' = database]_vars

\* the name of a record typed again, the record not on desk 5 and not the
\* first of the store
C7_Witness ==
    /\ pc = "assign_err_msg"
    /\ Len(database) = 2
    /\ database[2].user_name = user_input
    /\ screen = FoundMessage(user_input, database[2].desk_number)

IsNumberOf(s, n) == isdigit(s) /\ IntParses(s) /\ int(s) = n

\* C8 as stated: once Clear has removed desk n, the rejection a second Clear
\* of desk n meets is the "not assigned" message, also when the store is empty.
C8_AlwaysNotAssigned ==
    (/\ cleared # 0
     /\ \/ pc = "clear_empty_msg"
        \/ pc = "clear_err_msg" /\ IsNumberOf(user_input, cleared))
    => screen = NotAssignedMessage(cleared)

\* C8 amended: once Clear has removed desk n the store holds no record of
\* desk n, and a second Clear right after it leaves the store unchanged: if
\* records remain it prompts, and typing n is rejected with the "not
\* assigned" message; if the first clear emptied the store it shows "No desks
\* assigned yet." without prompting.
C8_SecondClear ==
    [][cleared' # 0 => cleared' \notin Desks(database')]_vars
    /\ [][cleared # 0 =>
           /\ (pc = "menu" /\ pc' \in {"clear_prompt", "clear_empty_msg"}) =>
                  /\ database' = database
                  /\ IF database = <<>>
                     THEN pc' = "clear_empty_msg" /\ screen' = NoDesksMessage
                     ELSE pc' = "clear_prompt" /\ screen' = DeskPrompt
           /\ (pc = "clear_prompt" /\ pc' # "crashed"
                 /\ IsNumberOf(user_input', cleared)) =>
                  /\ database' = database
                  /\ pc' = "clear_err_msg"
                  /\ screen' = NotAssignedMessage(cleared)
           /\ pc \in {"clear_err_msg", "clear_empty_msg"} => database' = database]_vars

\* desk 5 cleared, records left, and "5" typed at the next Clear
C8_Witness ==
    /\ cleared = 5
    /\ pc = "clear_err_msg"
    /\ IsNumberOf(user_input, 5)
    /\ database # <<>>
    /\ screen = NotAssignedMessage(5)

\* C9: at the Assign prompt a 1-character name is rejected as too short and
\* an 18-character name as too long, each leaving the store unchanged with
\* the prompt coming back; the empty name leads back to the main menu with no
\* message and no change; a name of 2..17 characters is never rejected for
\* its length.
C9_NameLength ==
    [][/\ (pc = "assign_prompt" /\ pc' # "crashed") =>
              /\ Len(user_input') = 1 =>
                     /\ pc' = "assign_err_msg"
                     /\ screen' = Message("User name too short.", <<>>, 0)
                     /\ database' = database
              /\ Len(user_input') = 18 =>
                     /\ pc' = "assign_err_msg"
                     /\ screen' = Message("User name too long.", <<>>, 0)
                     /\ database' = database
              /\ Len(user_input') = 0 =>
                     /\ pc' \in MainMenu
                     /\ screen' \in {MenuScreen, ResizeScreen}
                     /\ database' = database
              /\ Len(user_input') \in 2..17 =>
                     /\ pc' \in {"assign_err_msg", "assign_ok_msg"}
                     /\ screen'.text \notin {"User name too short.", "User name too long."}
              /\ pc' = "assign_ok_msg" => Len(user_input') \in 2..17
       /\ pc = "assign_err_msg" =>
              /\ pc' = "assign_prompt"
              /\ screen' = NamePrompt
              /\ database' = database]_vars

\* an 18-character name turned down
C9_Witness ==
    /\ pc = "assign_err_msg"
    /\ Len(user_input) = 18
    /\ screen = Message("User name too long.", <<>>, 0)

\* C10: no input brings a handler to a fatal error; the program ends only by
\* key 0 in the main menu, after exactly one save attempt.
C10_NoFatalError ==
    /\ pc # "crashed"
    /\ pc = "done" => saves = 1
    /\ pc # "done" => saves = 0

====
